---- MODULE Spec2Model ----
(***************************************************************************)
(* Model of multiple_recommendation_models_endpoint.ipynb: the endpoint    *)
(* wait cell and the two recommendation routines,                          *)
(* get_recommendations_for_user (movie) and                                *)
(* get_music_recommendations_for_user (music).                             *)
(*                                                                         *)
(* Text is a sequence of one-character strings, so that str.split,         *)
(* str.join, ==, the ordering used by sorted() and int()/float() are       *)
(* computed character by character as Python computes them.                *)
(***************************************************************************)
EXTENDS Integers, Sequences, FiniteSets, TLC

(***************************************************************************)
(* Bounds of the model.                                                    *)
(***************************************************************************)
\* longest candidate file enumerated exhaustively over the row pool
MaxLines == 3
\* length of the mid-size files (three usable rows and a last line)
MidLines == 4
\* length of the long files (more usable rows than the top-N cut keeps)
LongLines == 11
\* most sleeps of the wait loop during which the platform may stay Creating
MaxPolls == 2

(***************************************************************************)
(* Text: characters, comparison, split, join.                              *)
(***************************************************************************)
NL == "\n"
Digits == <<"0", "1", "2", "3", "4", "5", "6", "7", "8", "9">>

IsDigit(c) == \E d \in 1..10 : Digits[d] = c

DigitVal(c) == (CHOOSE d \in 1..10 : Digits[d] = c) - 1

\* code point of a character (Python compares str by code point)
Ord(c) ==
    CASE c = NL  -> 10
      [] c = "," -> 44
      [] c = "." -> 46
      [] OTHER   -> 48 + DigitVal(c)

\* Python str < str: lexicographic by code point, a proper prefix is smaller
RECURSIVE StrLess(_, _)
StrLess(a, b) ==
    IF b = <<>> THEN FALSE
    ELSE IF a = <<>> THEN TRUE
    ELSE IF Ord(Head(a)) # Ord(Head(b)) THEN Ord(Head(a)) < Ord(Head(b))
    ELSE StrLess(Tail(a), Tail(b))

\* line.split(','): the fields between commas; "" splits to [""]
RECURSIVE SplitFrom(_, _, _)
SplitFrom(line, done, cur) ==
    IF line = <<>> THEN Append(done, cur)
    ELSE IF Head(line) = ","
         THEN SplitFrom(Tail(line), Append(done, cur), <<>>)
         ELSE SplitFrom(Tail(line), done, Append(cur, Head(line)))

Split(line) == SplitFrom(line, <<>>, <<>>)

\* ','.join(fields)
RECURSIVE Join(_)
Join(fields) ==
    IF fields = <<>> THEN <<>>
    ELSE IF Len(fields) = 1 THEN fields[1]
    ELSE fields[1] \o <<",">> \o Join(Tail(fields))

\* decimal digits of a natural number
RECURSIVE IntText(_)
IntText(n) ==
    IF n < 10 THEN <<Digits[n + 1]>>
    ELSE Append(IntText(n \div 10), Digits[(n % 10) + 1])

\* str(user_id): an int prints its digits, a str is returned as it is
Str(v) == IF v.type = "int" THEN IntText(v.val) ELSE v.val

\* str.strip() as int() and float() apply it (the only whitespace here is \n)
RECURSIVE StripLeft(_)
StripLeft(t) == IF t # <<>> /\ Head(t) = NL THEN StripLeft(Tail(t)) ELSE t

RECURSIVE StripRight(_)
StripRight(t) ==
    IF t # <<>> /\ t[Len(t)] = NL THEN StripRight(SubSeq(t, 1, Len(t) - 1)) ELSE t

Strip(t) == StripRight(StripLeft(t))

AllDigits(t) == \A j \in 1..Len(t) : IsDigit(t[j])

RECURSIVE DigitsVal(_)
DigitsVal(t) ==
    IF t = <<>> THEN 0 ELSE 10 * DigitsVal(SubSeq(t, 1, Len(t) - 1)) + DigitVal(t[Len(t)])

\* results of int() and float(): a value, or ValueError raised
Parsed(v) == [ok |-> TRUE, val |-> v]
ValueError(v) == [ok |-> FALSE, val |-> v]

\* int(text): surrounding whitespace is ignored, then only digits are accepted
ParseInt(t) ==
    LET s == Strip(t)
    IN  IF s # <<>> /\ AllDigits(s) THEN Parsed(DigitsVal(s)) ELSE ValueError(0)

RECURSIVE DropTrailingZeros(_)
DropTrailingZeros(t) ==
    IF t # <<>> /\ t[Len(t)] = "0" THEN DropTrailingZeros(SubSeq(t, 1, Len(t) - 1)) ELSE t

\* float(text): digits with at most one point and a digit on either side of it;
\* the value is kept exactly as whole part and fraction digits
ParseFloat(t) ==
    LET s == Strip(t)
        dots == {j \in 1..Len(s) : s[j] = "."}
        p == IF dots = {} THEN Len(s) + 1 ELSE CHOOSE j \in dots : TRUE
        whole == SubSeq(s, 1, p - 1)
        frac == SubSeq(s, p + 1, Len(s))
    IN  IF Cardinality(dots) <= 1 /\ AllDigits(whole) /\ AllDigits(frac)
           /\ (whole # <<>> \/ frac # <<>>)
        THEN Parsed([whole |-> DigitsVal(whole), frac |-> DropTrailingZeros(frac)])
        ELSE ValueError([whole |-> 0, frac |-> <<>>])

(***************************************************************************)
(* Program constants and input data.                                       *)
(***************************************************************************)
\* sorted_predcitions[0:9]
TopN == 9

Routines == {"movie", "music"}

\* the TargetModel each call site passes as model_name
ModelName(r) ==
    IF r = "movie" THEN "movie-rec-model.tar.gz" ELSE "music-rec-model.tar.gz"

\* how many times the routine executes split_data.pop(0)
LabelFields(r) == IF r = "movie" THEN 2 ELSE 1

T100 == <<"1", "0", "0">>
T100p0 == <<"1", "0", "0", ".", "0">>

\* the fields of a candidate row that follow its label fields
RowFields ==
    << <<T100, <<"1">>, <<"7">> >>,
       <<T100, <<"2">>, <<"7">> >>,
       <<T100, <<"3">>, <<"7">> >>,
       <<T100p0, <<"2", ".", "0">>, <<"7">> >> >>

\* the label fields in front of them in each file (rating, and for movies one more)
LabelText(r) == IF r = "movie" THEN << <<"4">>, <<"8">> >> ELSE << <<"5">> >>

\* a well-formed line of routine r's file, as readlines() returns it
DataLine(r, p) == Join(LabelText(r) \o RowFields[p]) \o <<NL>>

\* pool of lines: entry p <= 4 is row p in both files, entry 5 is a blank line
BlankEntry == Len(RowFields) + 1
Pool == 1..BlankEntry
PoolLine(r, p) == IF p = BlankEntry THEN <<NL>> ELSE DataLine(r, p)

\* rows of user "100", from which the mid-size and long files are built
RowsOf100 == 1..3

Cycle(base, n) == [j \in 1..n |-> base[((j - 1) % Len(base)) + 1]]

ShortFiles == UNION {[1..n -> Pool] : n \in 0..MaxLines}
CycledFiles ==
    {Cycle(b, n) : b \in [1..3 -> RowsOf100], n \in {MidLines, LongLines}}
Files == ShortFiles \cup CycledFiles

\* the user_id arguments: an int as in user_ids = [100, 235], a str as in '30544.0'
UserIds == {[type |-> "int", val |-> 100], [type |-> "str", val |-> T100p0]}

\* what invoke_endpoint does: it returns a body, or it raises
InvokeFailure == [ok |-> FALSE, body |-> <<>>]
Score(t) == [ok |-> TRUE, body |-> t]

\* responses of the hosted model to the payload of pool row p
Oracles ==
    { << Score(<<"0", ".", "9">>), Score(<<"0", ".", "5">>),
         Score(<<"0", ".", "7">>), Score(<<"0", ".", "7">>) >>,
      << Score(<<"9", ".", "0">>), Score(<<"2", ".", "5">>),
         Score(<<"1", "0", ".", "0">>), Score(<<"9", ".", "0">>) >>,
      << Score(<<"0", ".", "5">>), InvokeFailure,
         Score(<<"0", ".", "5">>), Score(<<"0", ".", "5">>) >> }

\* movie_df ('movie id' is an integer column) and song_df ('short_song_id' is a
\* floating-point column): the same titles under equivalent keys
movie_df ==
    << [key |-> 1, title |-> <<"A">>],
       [key |-> 2, title |-> <<"B">>],
       [key |-> 2, title |-> <<"B", "2">>] >>
song_df ==
    << [key |-> [whole |-> 1, frac |-> <<>>], title |-> <<"A">>],
       [key |-> [whole |-> 2, frac |-> <<>>], title |-> <<"B">>],
       [key |-> [whole |-> 2, frac |-> <<>>], title |-> <<"B", "2">>] >>

Metadata(r) == IF r = "movie" THEN movie_df ELSE song_df

(***************************************************************************)
(* State.                                                                  *)
(***************************************************************************)
VARIABLES
    endpointStatus,   \* the platform's EndpointStatus
    wpc,              \* position of the wait cell
    status,           \* the wait cell's variable status
    observed,         \* every status describe_endpoint returned, in order
    file,             \* the candidate files, as pool entries
    user_id,          \* argument user_id
    show_predictions, \* argument show_predictions
    oracle,           \* the hosted models' responses
    pc,               \* position of each routine's invocation
    i,                \* loop index i (0-based, as in the code)
    user,             \* local variable user
    predictions_for_user,
    predictions,
    item,             \* local variable item
    inflight,         \* requests sent whose response has not been read
    requests,         \* every request issued, in order
    sorted_predcitions,
    recommendations,
    k,                \* how many entries of recommendations were handled
    out,              \* lines printed
    error             \* the exception that ended the invocation

wait_vars == <<endpointStatus, wpc, status, observed>>
input_vars == <<file, user_id, show_predictions, oracle>>
call_vars ==
    <<pc, i, user, item, predictions_for_user, predictions, inflight, requests,
      sorted_predcitions, recommendations, k, out, error>>
vars == <<wait_vars, input_vars, call_vars>>

\* a variable that has not been assigned yet
Unbound == <<"unbound">>

Init ==
    /\ endpointStatus = "Creating"
    /\ wpc = "describe"
    /\ status = "unbound"
    /\ observed = <<>>
    /\ file \in Files
    /\ user_id \in UserIds
    /\ show_predictions \in BOOLEAN
    /\ oracle \in Oracles
    /\ pc = [r \in Routines |-> "idle"]
    /\ i = [r \in Routines |-> 0]
    /\ user = [r \in Routines |-> Unbound]
    /\ predictions_for_user = [r \in Routines |-> Unbound]
    /\ predictions = [r \in Routines |-> <<>>]
    /\ item = [r \in Routines |-> Unbound]
    /\ inflight = {}
    /\ requests = [r \in Routines |-> <<>>]
    /\ sorted_predcitions = [r \in Routines |-> <<>>]
    /\ recommendations = [r \in Routines |-> <<>>]
    /\ k = [r \in Routines |-> 0]
    /\ out = [r \in Routines |-> <<>>]
    /\ error = [r \in Routines |-> "none"]

(***************************************************************************)
(* The platform and the wait cell.                                         *)
(***************************************************************************)
\* the platform finishes creating the endpoint, successfully or not
EndpointSettles ==
    /\ endpointStatus = "Creating"
    /\ endpointStatus' \in {"InService", "Failed"}
    /\ UNCHANGED <<wpc, status, observed, input_vars, call_vars>>

\* resp = sm_client.describe_endpoint(...); status = resp['EndpointStatus']
Describe ==
    /\ wpc = "describe"
    /\ status' = endpointStatus
    /\ observed' = Append(observed, endpointStatus)
    /\ wpc' = "while"
    /\ UNCHANGED <<endpointStatus, input_vars, call_vars>>

\* a test that never holds (status compared with a misspelt 'creating')
NeverWaiting(s) == s = "creating"

\* the test of while status=='Creating'
KeepWaiting(s) == s = "Creating"

\* one iteration: sleep, describe, print the status
\* (the platform is taken to settle within MaxPolls sleeps)
Poll ==
    /\ wpc = "while"
    /\ KeepWaiting(status)
    /\ Len(observed) <= MaxPolls \/ endpointStatus # "Creating"
    /\ status' = endpointStatus
    /\ observed' = Append(observed, endpointStatus)
    /\ UNCHANGED <<endpointStatus, wpc, input_vars, call_vars>>

\* the loop ends; print('DONE')
WaitDone ==
    /\ wpc = "while"
    /\ ~KeepWaiting(status)
    /\ wpc' = "DONE"
    /\ UNCHANGED <<endpointStatus, status, observed, input_vars, call_vars>>

(***************************************************************************)
(* The recommendation routines.                                            *)
(***************************************************************************)
\* contents = f.readlines()
Contents(r) == [j \in 1..Len(file) |-> PoolLine(r, file[j])]

\* line = contents[n]
Line(r, n) == PoolLine(r, file[n + 1])

\* a loop over range(0, len(contents)), which visits the last line too
AllLines(contents) == Len(contents)

\* for i in range(0, len(contents) - 1): the number of lines the loop visits
UsableLines(contents) == IF Len(contents) = 0 THEN 0 ELSE Len(contents) - 1

\* n times split_data.pop(0); pop from an empty list raises IndexError
RECURSIVE PopLabels(_, _)
PopLabels(fields, n) ==
    IF n = 0 THEN [ok |-> TRUE, val |-> fields]
    ELSE IF fields = <<>> THEN [ok |-> FALSE, val |-> <<>>]
    ELSE PopLabels(Tail(fields), n - 1)

\* the loop body up to the comparison: split, drop the labels, read user and item
ParseRow(r, line) ==
    LET popped == PopLabels(Split(line), LabelFields(r))
        split_data == popped.val
    IN  [ok |-> popped.ok /\ Len(split_data) >= 2,
         split_data |-> split_data,
         user |-> IF popped.ok /\ Len(split_data) >= 1 THEN split_data[1] ELSE Unbound,
         item |-> IF popped.ok /\ Len(split_data) >= 2 THEN split_data[2] ELSE Unbound]

\* a comparison of the two ids as numbers instead of as text
MatchesAsNumbers(u, wanted) == ParseFloat(u) = ParseFloat(wanted)

\* a comparison that scores rows only when the result will be shown
MatchesWhenShown(u, wanted) == show_predictions /\ u = wanted

\* user == predictions_for_user
Matches(u, wanted) == u = wanted

\* def get_..._for_user(model_name, user_id, show_predictions): up to readlines()
Call(r) ==
    /\ wpc = "DONE"
    /\ pc[r] = "idle"
    /\ r = "music" => pc["movie"] \in {"done", "failed"}
    /\ predictions_for_user' = [predictions_for_user EXCEPT ![r] = Str(user_id)]
    /\ predictions' = [predictions EXCEPT ![r] = <<>>]
    /\ i' = [i EXCEPT ![r] = 0]
    /\ pc' = [pc EXCEPT ![r] = "loop"]
    /\ UNCHANGED <<wait_vars, input_vars, user, item, inflight, requests,
                   sorted_predcitions, recommendations, k, out, error>>

\* a payload that leaves out the user field, ','.join(split_data[1:])
PayloadFromItem(split_data) == Join(Tail(split_data))

\* payload = ','.join(split_data)
Payload(split_data) == Join(split_data)

\* a send that does not wait for its response
SendAndContinue(r) == "loop"

\* where the loop goes after it has sent the request of a matching row
AfterSend(r) == "invoke"

\* a malformed row that is skipped: the loop stays alive
SkipMalformedRow(r) == "loop"

\* where the routine goes when pop(0) or split_data[...] raises IndexError
OnMalformedRow(r) == "failed"

\* one pass of the loop body, up to and including the call of invoke_endpoint
Scan(r) ==
    /\ pc[r] = "loop"
    /\ i[r] < UsableLines(Contents(r))
    /\ LET row == ParseRow(r, Line(r, i[r]))
           req == [routine |-> r, row |-> i[r], payload |-> Payload(row.split_data),
                   target |-> ModelName(r)]
       IN  /\ user' = [user EXCEPT ![r] = IF row.user = Unbound THEN @ ELSE row.user]
           /\ item' = [item EXCEPT ![r] = IF row.item = Unbound THEN @ ELSE row.item]
           /\ IF ~row.ok
              THEN /\ pc' = [pc EXCEPT ![r] = OnMalformedRow(r)]
                   /\ error' = [error EXCEPT ![r] = "IndexError:row"]
                   /\ UNCHANGED <<i, inflight, requests>>
              ELSE IF Matches(row.user, predictions_for_user[r])
              THEN /\ inflight' = inflight \cup {req}
                   /\ requests' = [requests EXCEPT ![r] = Append(@, req)]
                   /\ pc' = [pc EXCEPT ![r] = AfterSend(r)]
                   /\ UNCHANGED <<i, error>>
              ELSE /\ i' = [i EXCEPT ![r] = @ + 1]
                   /\ UNCHANGED <<pc, error, inflight, requests>>
    /\ UNCHANGED <<wait_vars, input_vars, predictions_for_user, predictions,
                   sorted_predcitions, recommendations, k, out>>

\* what the endpoint answers: nothing unless it is in service, else the hosted
\* model's prediction for the payload
Invoke(req) ==
    LET known == {p \in 1..Len(RowFields) : Join(RowFields[p]) \o <<NL>> = req.payload}
    IN  IF endpointStatus # "InService" \/ known = {} THEN InvokeFailure
        ELSE oracle[CHOOSE p \in known : TRUE]

\* a caught exception: the loop carries on
CatchAndContinue(r) == "loop"

\* where the routine goes when invoke_endpoint raises
OnInvokeError(r) == "failed"

\* invoke_endpoint returns or raises; prediction = ...; predictions.append(...)
Respond(r) ==
    /\ pc[r] = "invoke"
    /\ \E req \in inflight :
         /\ req.routine = r
         /\ req.row = i[r]
         /\ inflight' = inflight \ {req}
         /\ IF Invoke(req).ok
            THEN /\ predictions' =
                      [predictions EXCEPT ![r] = Append(@, <<item[r], Invoke(req).body>>)]
                 /\ i' = [i EXCEPT ![r] = @ + 1]
                 /\ pc' = [pc EXCEPT ![r] = "loop"]
                 /\ UNCHANGED error
            ELSE /\ pc' = [pc EXCEPT ![r] = OnInvokeError(r)]
                 /\ error' = [error EXCEPT ![r] = "InvokeError"]
                 /\ UNCHANGED <<predictions, i>>
    /\ UNCHANGED <<wait_vars, input_vars, user, item, predictions_for_user, requests,
                   sorted_predcitions, recommendations, k, out>>

\* an ordering of the scores as numbers, key = lambda x: float(x[1])
NumLess(a, b) ==
    LET x == ParseFloat(a).val
        y == ParseFloat(b).val
    IN  \/ x.whole < y.whole
        \/ x.whole = y.whole /\ StrLess(x.frac, y.frac)

BeforeAsNumbers(a, b) == NumLess(b[2], a[2])

\* the order of an ascending sort that is then reversed: of two equal scores
\* the later one comes first
BeforeOrEqual(a, b) == ~StrLess(a[2], b[2])

\* key = lambda x: x[1], reverse=True: a comes before b when its score is larger
Before(a, b) == StrLess(b[2], a[2])

\* sorted() is stable: x goes behind every entry that is not behind it
RECURSIVE InsertSorted(_, _)
InsertSorted(s, x) ==
    IF s = <<>> THEN <<x>>
    ELSE IF Before(x, Head(s)) THEN <<x>> \o s
    ELSE <<Head(s)>> \o InsertSorted(Tail(s), x)

RECURSIVE Sorted(_)
Sorted(s) ==
    IF s = <<>> THEN <<>>
    ELSE InsertSorted(Sorted(SubSeq(s, 1, Len(s) - 1)), s[Len(s)])

\* a cut that keeps ten entries, as "the top 10 recommendations" would
SliceTen(s) == SubSeq(s, 1, IF Len(s) < TopN + 1 THEN Len(s) ELSE TopN + 1)

\* sorted_predcitions[0:9]
Slice(s) == SubSeq(s, 1, IF Len(s) < TopN THEN Len(s) ELSE TopN)

\* the value the header line prints
HeaderUser(r) == IF r = "movie" THEN predictions_for_user[r] ELSE user[r]

\* no header line printed before the titles
NoHeaderLine(r) == <<>>

\* print("Recommended ... for user with id : ", ...)
HeaderLine(r) == <<[kind |-> "header", text |-> HeaderUser(r)]>>

\* the loop is over: return, or sort, cut and print the header
Rank(r) ==
    /\ pc[r] = "loop"
    /\ i[r] >= UsableLines(Contents(r))
    /\ IF ~show_predictions
       THEN /\ pc' = [pc EXCEPT ![r] = "done"]
            /\ UNCHANGED <<sorted_predcitions, recommendations, out, error>>
       ELSE /\ sorted_predcitions' = [sorted_predcitions EXCEPT ![r] = Sorted(predictions[r])]
            /\ recommendations' =
                 [recommendations EXCEPT ![r] = Slice(Sorted(predictions[r]))]
            /\ IF HeaderUser(r) = Unbound
               THEN /\ pc' = [pc EXCEPT ![r] = "failed"]
                    /\ error' = [error EXCEPT ![r] = "UnboundLocalError"]
                    /\ UNCHANGED out
               ELSE /\ out' = [out EXCEPT ![r] = @ \o HeaderLine(r)]
                    /\ pc' = [pc EXCEPT ![r] = "titles"]
                    /\ UNCHANGED error
    /\ UNCHANGED <<wait_vars, input_vars, i, user, item, predictions_for_user,
                   predictions, inflight, requests, k>>

\* int(rec[0]) for movies, float(rec[0]) for songs
ItemKey(r, text) == IF r = "movie" THEN ParseInt(text) ELSE ParseFloat(text)

\* df.loc[df[key column] == id][title column].values
Lookup(r, id) ==
    LET df == Metadata(r)
        hits == {j \in 1..Len(df) : df[j].key = id}
    IN  [j \in 1..Cardinality(hits) |->
            df[CHOOSE h \in hits : Cardinality({g \in hits : g < h}) = j - 1].title]

\* .values[-1]: the title of the last matching row
LastTitle(titles) == titles[Len(titles)]

\* .values[0]
FirstTitle(titles) == titles[1]

\* one pass of for rec in recommendations
ShowTitle(r) ==
    /\ pc[r] = "titles"
    /\ k[r] < Len(recommendations[r])
    /\ LET rec == recommendations[r][k[r] + 1]
           id == ItemKey(r, rec[1])
       IN  IF ~id.ok
           THEN /\ pc' = [pc EXCEPT ![r] = "failed"]
                /\ error' = [error EXCEPT ![r] = "ValueError"]
                /\ UNCHANGED <<k, out>>
           ELSE IF Lookup(r, id.val) = <<>>
           THEN /\ pc' = [pc EXCEPT ![r] = "failed"]
                /\ error' = [error EXCEPT ![r] = "IndexError:lookup"]
                /\ UNCHANGED <<k, out>>
           ELSE /\ out' = [out EXCEPT ![r] = Append(@, [kind |-> "title", text |-> FirstTitle(Lookup(r, id.val))])]
                /\ k' = [k EXCEPT ![r] = @ + 1]
                /\ UNCHANGED <<pc, error>>
    /\ UNCHANGED <<wait_vars, input_vars, i, user, item, predictions_for_user,
                   predictions, inflight, requests, sorted_predcitions, recommendations>>

\* the for loop is exhausted and the routine returns
Return(r) ==
    /\ pc[r] = "titles"
    /\ k[r] = Len(recommendations[r])
    /\ pc' = [pc EXCEPT ![r] = "done"]
    /\ UNCHANGED <<wait_vars, input_vars, i, user, item, predictions_for_user,
                   predictions, inflight, requests, sorted_predcitions,
                   recommendations, k, out, error>>

Next ==
    \/ EndpointSettles
    \/ Describe
    \/ Poll
    \/ WaitDone
    \/ \E r \in Routines : Call(r)
    \/ \E r \in Routines : Scan(r)
    \/ \E r \in Routines : Respond(r)
    \/ \E r \in Routines : Rank(r)
    \/ \E r \in Routines : ShowTitle(r)
    \/ \E r \in Routines : Return(r)

Spec == Init /\ [][Next]_vars

(***************************************************************************)
(* Properties.                                                             *)
(***************************************************************************)
\* the fields of every line a file can hold, and the fields of line n (0-based,
\* as the code counts them) of r's file
SplitLine == [r \in Routines |-> [p \in Pool |-> Split(PoolLine(r, p))]]
Fields(r, n) == SplitLine[r][file[n + 1]]

\* the first field of line n after its label fields, when the line has one
UserField(r, n) == Fields(r, n)[LabelFields(r) + 1]
HasUserField(r, n) == Len(Fields(r, n)) >= LabelFields(r) + 2

\* the lines (0-based, as the code counts them) of r's file that belong to u
LinesOf(r, u) ==
    {j \in 0..(Len(file) - 1) :
        HasUserField(r, j) /\ UserField(r, j) = u}

RequestedLines(r) == {requests[r][j].row : j \in 1..Len(requests[r])}

\* the scan loop of r ran to its end
LoopOver(r) ==
    \/ pc[r] \in {"titles", "done"}
    \/ pc[r] = "failed" /\ error[r] \in {"UnboundLocalError", "ValueError", "IndexError:lookup"}

\* C1: in both routines a scoring request is issued for a row only if the row's
\* user field (the first field after the label fields) is, character for
\* character, the text str(user_id); a row written "100.0" is never requested
\* for user 100, nor a row written "100" for user "100.0".
C1_RequestsOnlyForExactUser ==
    \A r \in Routines :
        \A j \in 1..Len(requests[r]) :
            LET u == UserField(r, requests[r][j].row)
            IN  /\ HasUserField(r, requests[r][j].row)
                /\ Len(u) = Len(Str(user_id))
                /\ \A c \in 1..Len(u) : u[c] = Str(user_id)[c]
                /\ (user_id.type = "int" /\ user_id.val = 100) => u = T100
                /\ (user_id.type = "str") => u = T100p0

\* C1 witness: user 100 was asked for, the file holds a row of "100.0" and a row
\* of "100" before its last line, and the movie routine has finished its scan
\* having issued a request
C1_Witness ==
    /\ user_id.type = "int"
    /\ pc["movie"] = "done"
    /\ Len(requests["movie"]) >= 1
    /\ \E j \in 1..(Len(file) - 1) : file[j] = 4
    /\ pc["music"] = "done"
    /\ Len(requests["music"]) >= 1

\* C2: the last line of the file is never scored (no request names it, and every
\* accumulated prediction is the answer to a request, in order, so its item
\* cannot enter through it); no line is requested twice; and once the scan loop
\* has run to its end every other line of the requested user was requested.
C2_LastLineNeverScored ==
    \A r \in Routines :
        /\ \A j \in 1..Len(requests[r]) : requests[r][j].row < Len(file) - 1
        /\ \A a, b \in 1..Len(requests[r]) :
              requests[r][a].row = requests[r][b].row => a = b
        /\ Len(predictions[r]) <= Len(requests[r])
        /\ \A j \in 1..Len(predictions[r]) :
              predictions[r][j][1] =
                  Fields(r, requests[r][j].row)[LabelFields(r) + 2]
        /\ Len(out[r]) <= Len(predictions[r]) + 1
        /\ LoopOver(r) =>
              RequestedLines(r) = LinesOf(r, Str(user_id)) \ {Len(file) - 1}

\* C2 witness: a file whose last line belongs to the requested user, as does an
\* earlier line, was scanned to the end by both routines
C2_Witness ==
    /\ Len(file) >= 2
    /\ (Len(file) - 1) \in LinesOf("movie", Str(user_id))
    /\ pc["movie"] = "done" /\ pc["music"] = "done"
    /\ show_predictions
    /\ Len(requests["movie"]) >= 1
    /\ Len(requests["movie"]) = Cardinality(LinesOf("movie", Str(user_id))) - 1

Scores(s) == [j \in 1..Len(s) |-> s[j][2]]
Items(s) == [j \in 1..Len(s) |-> s[j][1]]
Count(s, x) == Cardinality({j \in 1..Len(s) : s[j] = x})

\* the routine has sorted its predictions
Ranked(r) == show_predictions /\ LoopOver(r)

\* the title the metadata tables give an item text
TitleOf(t) == IF t = <<"1">> THEN <<"A">> ELSE <<"B">>

\* C3: with show_predictions the accumulated pairs are ranked by the text of the
\* score, descending: every earlier score text is >= the next one as text, the
\* ranked list is a permutation of the accumulated pairs, the titles come out in
\* rank order, scores "9.0","10.0","2.5" rank as "9.0","2.5","10.0", and scores
\* "0.9","0.5","0.7" of items 1,2,3 rank as items 1,3,2.
C3_RankedByScoreText ==
    \A r \in Routines :
        Ranked(r) =>
            LET sp == sorted_predcitions[r]
            IN  /\ \A j \in 1..(Len(sp) - 1) : ~StrLess(sp[j][2], sp[j + 1][2])
                /\ Len(sp) = Len(predictions[r])
                /\ \A j \in 1..Len(sp) : Count(sp, sp[j]) = Count(predictions[r], sp[j])
                /\ \A j \in 2..Len(out[r]) :
                      out[r][j].text = TitleOf(recommendations[r][j - 1][1])
                /\ \A j \in 1..Len(recommendations[r]) : recommendations[r][j] = sp[j]
                /\ Scores(predictions[r])
                       = << <<"9", ".", "0">>, <<"1", "0", ".", "0">>, <<"2", ".", "5">> >>
                   => Scores(sp)
                       = << <<"9", ".", "0">>, <<"2", ".", "5">>, <<"1", "0", ".", "0">> >>
                /\ predictions[r]
                       = << << <<"1">>, <<"0", ".", "9">> >>,
                            << <<"2">>, <<"0", ".", "5">> >>,
                            << <<"3">>, <<"0", ".", "7">> >> >>
                   => Items(recommendations[r]) = << <<"1">>, <<"3">>, <<"2">> >>

\* C3 witness: scores "9.0","10.0","2.5" were accumulated and ranked, and the
\* titles of the two highest-ranked items were printed
C3_Witness ==
    /\ Ranked("movie")
    /\ Scores(predictions["movie"])
           = << <<"9", ".", "0">>, <<"1", "0", ".", "0">>, <<"2", ".", "5">> >>
    /\ Len(out["movie"]) = 3

Min(a, b) == IF a < b THEN a ELSE b
NumTitles(r) == Cardinality({j \in 1..Len(out[r]) : out[r][j].kind = "title"})
Finished(r) == pc[r] \in {"done", "failed"}

\* the lines of the requested user that the scan visits (all but the last line)
ScoredLinesOf(r, u) == LinesOf(r, u) \ {Len(file) - 1}

C5_TitleOfFirstMatchOrFatal ==
    \A r \in Routines :
        LET df == Metadata(r)
            KeyOf(n) == ItemKey(r, recommendations[r][n][1])
        IN  /\ \A j \in 2..Len(out[r]) :
                  /\ KeyOf(j - 1).ok
                  /\ \E h \in 1..Len(df) :
                        /\ df[h].key = KeyOf(j - 1).val
                        /\ \A g \in 1..(h - 1) : df[g].key # KeyOf(j - 1).val
                        /\ out[r][j].text = df[h].title
                  /\ Strip(recommendations[r][j - 1][1]) = <<"2">> => out[r][j].text = <<"B">>
            /\ error[r] = "IndexError:lookup" =>
                  /\ pc[r] = "failed"
                  /\ k[r] < Len(recommendations[r])
                  /\ KeyOf(k[r] + 1).ok
                  /\ \A h \in 1..Len(df) : df[h].key # KeyOf(k[r] + 1).val
                  /\ NumTitles(r) = k[r]
                  /\ ~ENABLED (ShowTitle(r) \/ Return(r) \/ Rank(r) \/ Scan(r))
            /\ (show_predictions /\ pc[r] = "done") =>
                  NumTitles(r) = Len(recommendations[r])

\* C5 witness: the movie routine failed on an item without metadata after it
\* printed a title, with a lower-ranked item left unprinted
C5_Witness ==
    /\ error["movie"] = "IndexError:lookup"
    /\ k["movie"] >= 1
    /\ Len(recommendations["movie"]) > k["movie"] + 1

\* C6: at most one scoring request is outstanding; while one is outstanding the
\* routine is waiting for it; each request is issued only after every earlier
\* one was answered and appended; requests follow the file order, and the
\* accumulator holds, in that order, the items of the rows requested.
C6_OneRequestAtATime ==
    /\ Cardinality(inflight) <= 1
    /\ \A q \in inflight : pc[q.routine] = "invoke" /\ q.row = i[q.routine]
    /\ \A r \in Routines :
          /\ pc[r] = "invoke" =>
                /\ Len(requests[r]) = Len(predictions[r]) + 1
                /\ requests[r][Len(requests[r])] \in inflight
          /\ (pc[r] = "loop" \/ LoopOver(r)) => Len(requests[r]) = Len(predictions[r])
          /\ \A a, b \in 1..Len(requests[r]) :
                a < b => requests[r][a].row < requests[r][b].row
          /\ \A j \in 1..Len(predictions[r]) :
                predictions[r][j][1] =
                    Fields(r, requests[r][j].row)[LabelFields(r) + 2]

\* C6 witness: a third request is outstanding after two were answered
C6_Witness ==
    /\ pc["music"] = "invoke"
    /\ Len(predictions["music"]) = 2
    /\ Cardinality(inflight) = 1

\* C7: when an inference call fails the invocation is failed at that row: the
\* failed request is the last one issued, no row was requested twice, nothing was
\* sorted or printed, the answers received before are all still accumulated, and
\* no step of the routine can follow.
C7_InvokeFailureAborts ==
    \A r \in Routines :
        error[r] = "InvokeError" =>
            /\ pc[r] = "failed"
            /\ requests[r] # <<>>
            /\ requests[r][Len(requests[r])].row = i[r]
            /\ \A a, b \in 1..Len(requests[r]) :
                  requests[r][a].row = requests[r][b].row => a = b
            /\ Len(predictions[r]) = Len(requests[r]) - 1
            /\ sorted_predcitions[r] = <<>> /\ recommendations[r] = <<>>
            /\ out[r] = <<>>
            /\ ~ENABLED (Scan(r) \/ Respond(r) \/ Rank(r) \/ ShowTitle(r) \/ Return(r) \/ Call(r))

\* C7 witness: on an endpoint in service a request failed after an earlier one
\* was answered, and a later row of the user was left unrequested
C7_Witness ==
    /\ endpointStatus = "InService"
    /\ error["movie"] = "InvokeError"
    /\ Len(predictions["movie"]) >= 1
    /\ \E j \in ScoredLinesOf("movie", Str(user_id)) : j > i["movie"]

\* C8 as stated: an invocation that fails on a metadata lookup miss has printed
\* no header line and no title.
C8_NoOutputBeforeLookupMiss ==
    \A r \in Routines : error[r] = "IndexError:lookup" => out[r] = <<>>

\* C8 amended: an invocation that fails on a metadata lookup miss at rank n has
\* printed the header line and the titles of the n-1 higher-ranked items, in rank
\* order, and nothing for the missing item or the items ranked below it.
C8_OutputUpToLookupMiss ==
    \A r \in Routines :
        error[r] = "IndexError:lookup" =>
            /\ Len(out[r]) = k[r] + 1
            /\ out[r][1].kind = "header"
            /\ \A j \in 2..Len(out[r]) :
                  /\ out[r][j].kind = "title"
                  /\ out[r][j].text = TitleOf(Strip(recommendations[r][j - 1][1]))

\* C8 witness: the music routine failed on a lookup miss at rank 3
C8_Witness ==
    /\ error["music"] = "IndexError:lookup"
    /\ k["music"] = 2

\* C9: run on the same user_id, on files that agree after their label fields,
\* with the same responses and equivalent metadata, the two routines issue the
\* same payloads in the same order and end the same way: both complete or both
\* fail, with the same lines printed.
C9_RoutinesAgree ==
    (Finished("movie") /\ Finished("music")) =>
        /\ [j \in 1..Len(requests["movie"]) |-> requests["movie"][j].payload]
               = [j \in 1..Len(requests["music"]) |-> requests["music"][j].payload]
        /\ pc["movie"] = pc["music"]
        /\ out["movie"] = out["music"]

(***************************************************************************)
(* The wait cell under fair scheduling: the cell keeps running, and the    *)
(* platform leaves Creating.                                               *)
(***************************************************************************)
LiveSpec ==
    /\ Spec
    /\ WF_vars(Describe)
    /\ WF_vars(Poll)
    /\ WF_vars(WaitDone)
    /\ WF_vars(EndpointSettles)

WaitSafe ==
    /\ wpc # "describe" => Len(observed) >= 1 /\ status = observed[Len(observed)]
    /\ \A j \in 1..(Len(observed) - 1) : observed[j] = "Creating"
    /\ (wpc = "while" /\ status = "Creating") => ~ENABLED WaitDone
    /\ (wpc = "while" /\ status # "Creating") => ENABLED WaitDone /\ ~ENABLED Poll
    /\ (wpc = "while" /\ status = "Creating" /\ endpointStatus # "Creating") => ENABLED Poll
    /\ wpc = "DONE" => status \in {"InService", "Failed"}

\* C10: the status is described at least once; every status observed before the
\* last is Creating; while the last observed status is Creating the cell cannot
\* end and polls again; at the first InService or Failed it can only end; and,
\* the platform leaving Creating, the cell reaches DONE.
C10_WaitUntilTerminal == []WaitSafe /\ <>(wpc = "DONE")

\* C10 witness: the cell is DONE after it saw Creating twice and then Failed
C10_Witness ==
    /\ wpc = "DONE"
    /\ observed = <<"Creating", "Creating", "Failed">>

\* the text of a line that follows its n-th comma
RECURSIVE AfterCommas(_, _)
AfterCommas(line, n) ==
    IF n = 0 \/ line = <<>> THEN line
    ELSE AfterCommas(Tail(line), IF Head(line) = "," THEN n - 1 ELSE n)

\* the number of label fields of each file, as the spec gives it
LabelCount(r) == IF r = "movie" THEN 2 ELSE 1

\* the requests (line, payload) an invocation issues from line j on, computed
\* from the file, the requested id and the endpoint alone: the scan stops at a
\* line too short to hold user and item and at a request that is not answered
RECURSIVE ExpectFrom(_, _, _)
ExpectFrom(r, j, acc) ==
    IF j >= Len(file) - 1 THEN acc
    ELSE LET line == Line(r, j)
             sent == Append(acc, <<j, AfterCommas(line, LabelCount(r))>>)
         IN  IF ~HasUserField(r, j) THEN acc
             ELSE IF UserField(r, j) # Str(user_id) THEN ExpectFrom(r, j + 1, acc)
             ELSE IF endpointStatus = "InService" /\ oracle[file[j + 1]].ok
                  THEN ExpectFrom(r, j + 1, sent)
                  ELSE sent

Issued(r) == [j \in 1..Len(requests[r]) |-> <<requests[r][j].row, requests[r][j].payload>>]

\* C11: the requests an invocation issues (lines, payloads, order) are those
\* determined by the file, the requested id and the endpoint, whatever
\* show_predictions is; and with show_predictions false nothing is sorted, no
\* metadata is looked up and nothing is printed.
C11_ShowOnlyControlsRendering ==
    \A r \in Routines :
        /\ Finished(r) => Issued(r) = ExpectFrom(r, 0, <<>>)
        /\ ~show_predictions =>
              /\ sorted_predcitions[r] = <<>>
              /\ recommendations[r] = <<>>
              /\ k[r] = 0
              /\ out[r] = <<>>
              /\ pc[r] # "titles"
              /\ error[r] \in {"none", "InvokeError", "IndexError:row"}

\* C11 witness: with show_predictions false both routines completed after at
\* least two requests each
C11_Witness ==
    /\ ~show_predictions
    /\ \A r \in Routines : pc[r] = "done" /\ Len(requests[r]) >= 2

\* C12: the payload of every request is the text of its line behind the label
\* fields (two for movies, one for songs): the label text, a comma and the
\* payload make up the line, the payload's fields are all the remaining fields
\* in their order, beginning with the requested user id and the item id, and
\* the request names the invocation's model as its target.
C12_PayloadIsRowWithoutLabels ==
    \A r \in Routines :
        \A j \in 1..Len(requests[r]) :
            LET req == requests[r][j]
                line == Line(r, req.row)
                fields == Fields(r, req.row)
                sent == Split(req.payload)
            IN  /\ req.payload = AfterCommas(line, LabelCount(r))
                /\ line = Join(LabelText(r)) \o <<",">> \o req.payload
                /\ Len(sent) = Len(fields) - LabelCount(r)
                /\ \A f \in 1..Len(sent) : sent[f] = fields[f + LabelCount(r)]
                /\ sent[1] = Str(user_id)
                /\ Len(predictions[r]) >= j => sent[2] = predictions[r][j][1]
                /\ req.target = ModelName(r)
                /\ req.target =
                      (IF r = "movie" THEN "movie-rec-model.tar.gz" ELSE "music-rec-model.tar.gz")

\* C12 witness: both routines sent the row of user "100.0" and had it answered
C12_Witness ==
    /\ user_id.type = "str"
    /\ \A r \in Routines :
          /\ Len(predictions[r]) >= 1
          /\ requests[r][1].payload = Join(RowFields[4]) \o <<NL>>

\* the lines before the last that are too short to hold user and item
MalformedLines(r) ==
    {j \in 0..(Len(file) - 2) : Len(Fields(r, j)) < LabelCount(r) + 2}

\* C13: an invocation that reaches a malformed line before the last line is
\* failed there, whoever was asked for: every request was for an earlier line,
\* nothing was sorted or printed and no step can follow; an invocation that
\* ends otherwise met no malformed line before the last, unless an inference
\* call failed first; and the last line, malformed or not, fails nothing.
C13_MalformedRowIsFatal ==
    \A r \in Routines :
        /\ error[r] = "IndexError:row" =>
              /\ pc[r] = "failed"
              /\ i[r] \in MalformedLines(r)
              /\ \A m \in MalformedLines(r) : i[r] <= m
              /\ \A j \in 1..Len(requests[r]) : requests[r][j].row < i[r]
              /\ sorted_predcitions[r] = <<>> /\ out[r] = <<>>
              /\ ~ENABLED (Scan(r) \/ Respond(r) \/ Rank(r) \/ ShowTitle(r) \/ Return(r) \/ Call(r))
        /\ (Finished(r) /\ error[r] # "IndexError:row" /\ MalformedLines(r) # {}) =>
              /\ error[r] = "InvokeError"
              /\ \A m \in MalformedLines(r) : i[r] < m
        /\ (LoopOver(r) /\ Len(file) >= 1) => i[r] = Len(file) - 1

\* C13 witness: the movie routine failed on a blank line after an answered
\* request, with a later line of the requested user left unrequested
C13_Witness ==
    /\ error["movie"] = "IndexError:row"
    /\ Len(predictions["movie"]) = 1
    /\ file[Len(file)] # BlankEntry
    /\ Len(file) - 1 \in LinesOf("movie", Str(user_id))

\* a file ending in a blank line was scanned to its end and ranked
C13_BlankLastLineWitness ==
    /\ Len(file) >= 2
    /\ file[Len(file)] = BlankEntry
    /\ pc["music"] = "done"
    /\ Len(out["music"]) >= 2

\* C14: when the wait cell is DONE the last observed status is InService, and
\* a routine runs only against an endpoint that is in service.
C14_DoneMeansInService ==
    /\ wpc = "DONE" => status = "InService"
    /\ \A r \in Routines : pc[r] # "idle" => endpointStatus = "InService"

\* the entries of s whose score text is t, in their order
RECURSIVE WithScore(_, _)
WithScore(s, t) ==
    IF s = <<>> THEN <<>>
    ELSE IF Head(s)[2] = t THEN <<Head(s)>> \o WithScore(Tail(s), t)
    ELSE WithScore(Tail(s), t)

IsPrefix(a, b) == Len(a) <= Len(b) /\ \A j \in 1..Len(a) : a[j] = b[j]

====
